---- MODULE Spec2Model ----
(***************************************************************************)
(* Model of generate_letter.py: module-level font registration, the style  *)
(* table, the HeaderFooter flowable and generate_document.                  *)
(*                                                                         *)
(* Lengths are integers in units of 1/635 point, so that the inch (72 pt)  *)
(* and the millimetre (72/25.4 pt) used by the source are both exact.      *)
(* The files on disk, the content record, the measured paragraph heights   *)
(* and the writability of the output path are inputs of the actions.       *)
(* Positions painted by HeaderFooter.draw are the coordinates it passes to *)
(* the canvas calls.                                                       *)
(***************************************************************************)
EXTENDS Integers, Sequences, FiniteSets

\* ------------------------------------------------------------------ units
pt == 635
inch == 72 * pt
mm == 1800

\* reportlab.lib.pagesizes.A4 = (210*mm, 297*mm)
A4 == <<210 * mm, 297 * mm>>

\* ----------------------------------------------------------------- bounds
\* longest list field (recipient, body, signature) of a content record
MaxLines == 2
\* wrapped line count of the long text "L"
LongLines == 40
\* largest wrapped line count the engine reports for a footer column
MaxFooterLines == 7

\* ------------------------------------------------------------ input sets
AssetStates == {"valid", "absent", "corrupt"}
\* native pixel sizes <<width, height>> reported by ImageReader.getSize
LogoSizes == {<<3, 1>>, <<1, 1>>}
\* texts of the content record: a one-line text and a many-line text
Texts == {"a", "L"}
Absent == "<absent>"

ListOf(s) == [tag |-> "list", lines |-> s]
AbsentField == [tag |-> "absent", lines |-> <<>>]
\* a number where a list is expected
NumberField == [tag |-> "number", lines |-> <<>>]

\* sequences of texts up to MaxLines in which neighbouring lines differ
LineLists ==
    UNION {{s \in [1..n -> Texts] : \A i \in 1..(n - 1) : s[i] # s[i + 1]} : n \in 0..MaxLines}

ListFields == {ListOf(s) : s \in LineLists} \cup {AbsentField, NumberField}
ScalarFields == {Absent, "a"}

Contents ==
    [date : ScalarFields, recipient : ListFields, title : ScalarFields,
     salutation : ScalarFields, body : ListFields, closing : ScalarFields,
     signature : ListFields]

NoContent ==
    [date |-> Absent, recipient |-> AbsentField, title |-> Absent,
     salutation |-> Absent, body |-> AbsentField, closing |-> Absent,
     signature |-> AbsentField]

VARIABLES
    pc,                 \* position of the program
    registered,         \* pdfmetrics.getRegisteredFontNames(), Satoshi faces only
    FONT_REGULAR_NAME,
    FONT_BOLD_NAME,
    content,            \* the content argument of generate_document
    story,              \* the list of flowables
    logo,               \* HeaderFooter.logo: "None" or "ImageReader"
    _draw_w,            \* HeaderFooter._draw_w
    _draw_h,            \* HeaderFooter._draw_h
    raised,             \* exception that left the program, or "none"
    retval,             \* value generate_document returned
    log,                \* last line printed by generate_document
    written,            \* the output file was written
    idx,                \* build: index of the flowable being handled
    lines,              \* build: lines of that flowable still to place
    page,               \* build: number of the current page
    avail,              \* build: height left in the frame of the page
    painted             \* build: one record per HeaderFooter.draw call

vars == <<pc, registered, FONT_REGULAR_NAME, FONT_BOLD_NAME, content, story,
          logo, _draw_w, _draw_h, raised, retval, log, written, idx, lines, page,
          avail, painted>>

fontVars == <<registered, FONT_REGULAR_NAME, FONT_BOLD_NAME>>
flowableVars == <<logo, _draw_w, _draw_h>>
buildVars == <<idx, lines, page, avail, painted>>

\* ------------------------------------------------- module-level font setup
BuiltinFonts == {"Helvetica", "Helvetica-Bold"}

\* lines 33-40: faces registered by the time the block ends or raises
RegisterFonts(fr, fb) ==
    IF fr = "absent" \/ fb = "absent" THEN {}
    ELSE IF fr = "corrupt" THEN {}
    ELSE IF fb = "corrupt" THEN {"Satoshi"}
    ELSE {"Satoshi", "Satoshi-Bold"}

\* lines 39-40: TTFont(...) raises on a file that is not a TrueType font
RegisterRaises(fr, fb) ==
    /\ fr # "absent"
    /\ fb # "absent"
    /\ (fr = "corrupt" \/ fb = "corrupt")

ResolveRegular(reg) == IF "Satoshi" \in reg THEN "Satoshi" ELSE "Helvetica"
ResolveBold(reg) == IF "Satoshi-Bold" \in reg THEN "Satoshi-Bold" ELSE "Helvetica-Bold"

ImportModule ==
    /\ pc = "import"
    /\ \E fr \in AssetStates, fb \in AssetStates :
        /\ registered' = RegisterFonts(fr, fb)
        /\ IF RegisterRaises(fr, fb)
           THEN /\ raised' = "TTFError"
                /\ pc' = "import_raised"
                /\ UNCHANGED <<FONT_REGULAR_NAME, FONT_BOLD_NAME>>
           ELSE /\ FONT_REGULAR_NAME' = ResolveRegular(registered')
                /\ FONT_BOLD_NAME' = ResolveBold(registered')
                /\ pc' = "loaded"
                /\ UNCHANGED raised
    /\ UNCHANGED <<content, story, retval, log, written>>
    /\ UNCHANGED flowableVars
    /\ UNCHANGED buildVars

\* ------------------------------------------------------------ style table
StyleNames == {"Normal", "Recipient", "Date", "Heading1", "Body", "Footer"}

\* get_letter_styles: Heading1 exists in the sample stylesheet and keeps its
\* leading of 22; the other roles are new styles whose parent is Normal
get_letter_styles ==
    [n \in StyleNames |->
        [fontName |-> IF n = "Heading1" THEN FONT_BOLD_NAME ELSE FONT_REGULAR_NAME,
         fontSize |-> CASE n = "Heading1" -> 18 * pt [] n = "Footer" -> 8 * pt [] OTHER -> 10 * pt,
         leading |-> CASE n = "Heading1" -> 22 * pt [] n = "Footer" -> 10 * pt [] OTHER -> 14 * pt,
         spaceBefore |-> CASE n = "Recipient" -> 10 * pt [] n = "Heading1" -> 12 * pt [] OTHER -> 0,
         spaceAfter |-> CASE n = "Heading1" -> 6 * pt [] n = "Body" -> 12 * pt [] OTHER -> 0]]

\* -------------------------------------------------------------- flowables
HeaderFooterBlock == [kind |-> "HeaderFooter", text |-> "", style |-> "", height |-> 0]
Paragraph(text, style) == [kind |-> "Paragraph", text |-> text, style |-> style, height |-> 0]
Spacer(h) == [kind |-> "Spacer", text |-> "", style |-> "", height |-> h]

\* content.get(key, '') of a scalar field
GetText(field) == IF field = Absent THEN "" ELSE field

\* ------------------------------------------------------- generate_document
TopMargin == (3 * inch) \div 2
BottomMargin == (5 * inch) \div 4
LeftMargin == 20 * mm
RightMargin == 20 * mm

Call ==
    /\ pc = "loaded"
    /\ \E c \in Contents : content' = c
    /\ pc' = "story"
    /\ UNCHANGED <<story, raised, retval, log, written>>
    /\ UNCHANGED fontVars
    /\ UNCHANGED flowableVars
    /\ UNCHANGED buildVars

\* lines 216-217 with HeaderFooter.__init__: ImageReader raises on a file
\* that exists and is not an image
NewStory ==
    /\ pc = "story"
    /\ \E f \in AssetStates :
        \/ /\ f = "absent"
           /\ logo' = "None"
           /\ story' = <<HeaderFooterBlock>>
           /\ pc' = "date"
           /\ UNCHANGED raised
        \/ /\ f = "valid"
           /\ logo' = "ImageReader"
           /\ story' = <<HeaderFooterBlock>>
           /\ pc' = "date"
           /\ UNCHANGED raised
        \/ /\ f = "corrupt"
           /\ raised' = "ImageReaderError"
           /\ pc' = "raised"
           /\ UNCHANGED <<logo, story>>
    /\ _draw_w' = 0
    /\ _draw_h' = 0
    /\ UNCHANGED <<content, retval, log, written>>
    /\ UNCHANGED fontVars
    /\ UNCHANGED buildVars

StoryStep(from, to, blocks) ==
    /\ pc = from
    /\ story' = story \o blocks
    /\ pc' = to
    /\ UNCHANGED <<content, raised, retval, log, written>>
    /\ UNCHANGED fontVars
    /\ UNCHANGED flowableVars
    /\ UNCHANGED buildVars

\* a for loop over a value that is not iterable raises TypeError
StoryRaise(from, field) ==
    /\ pc = from
    /\ field.tag = "number"
    /\ raised' = "TypeError"
    /\ pc' = "raised"
    /\ UNCHANGED <<content, story, retval, log, written>>
    /\ UNCHANGED fontVars
    /\ UNCHANGED flowableVars
    /\ UNCHANGED buildVars

\* content.get(key, []) of a list field that can be iterated
GetLines(field) == field.lines

LineBlocks(field, style) ==
    [i \in 1..Len(GetLines(field)) |-> Paragraph(GetLines(field)[i], style)]

DateBlocks(c) == <<Paragraph(GetText(c.date), "Date"), Spacer(inch \div 4)>>
\* variant: the recipient lines are appended last line first
RecipientBlocksReversed(c) ==
    [i \in 1..Len(GetLines(c.recipient)) |->
        Paragraph(GetLines(c.recipient)[Len(GetLines(c.recipient)) + 1 - i], "Recipient")]
    \o <<Spacer(inch \div 4)>>
RecipientBlocks(c) == LineBlocks(c.recipient, "Recipient") \o <<Spacer(inch \div 4)>>
TitleBlocks(c) == <<Paragraph(GetText(c.title), "Heading1"), Spacer(inch \div 10)>>
SalutationBlocks(c) == <<Paragraph(GetText(c.salutation), "Normal"), Spacer(inch \div 10)>>
BodyBlocks(c) == LineBlocks(c.body, "Body")
ClosingBlocks(c) == <<Paragraph(GetText(c.closing), "Normal"), Spacer(inch \div 4)>>
SignatureBlocks(c) == LineBlocks(c.signature, "Normal")

AppendDate == StoryStep("date", "recipient", DateBlocks(content))

AppendRecipient ==
    \/ /\ content.recipient.tag # "number"
       /\ StoryStep("recipient", "title", RecipientBlocks(content))
    \/ StoryRaise("recipient", content.recipient)

AppendTitle == StoryStep("title", "salutation", TitleBlocks(content))

AppendSalutation == StoryStep("salutation", "body", SalutationBlocks(content))

AppendBody ==
    \/ /\ content.body.tag # "number"
       /\ StoryStep("body", "closing", BodyBlocks(content))
    \/ StoryRaise("body", content.body)

AppendClosing == StoryStep("closing", "signature", ClosingBlocks(content))

AppendSignature ==
    \/ /\ content.signature.tag # "number"
       /\ StoryStep("signature", "build", SignatureBlocks(content))
    \/ StoryRaise("signature", content.signature)

\* ------------------------------------------------------- HeaderFooter.draw
FooterLineCounts == {3, MaxFooterLines}

\* Paragraph.wrapOn(canv, availWidth, availHeight) of a footer column that
\* wraps to n lines: the width it was given and the measured height
wrapOn(availWidth, n) == <<availWidth, n * get_letter_styles["Footer"].leading>>

\* lines 126-132: draw size of a logo of native size <<logo_w, logo_h>>
DrawSize(size) == <<(5 * inch) \div 4, (((5 * inch) \div 4) * size[2]) \div size[1]>>

\* lines 134-135: rectangle <<x, y, width, height>> the logo is drawn in
LogoRect(size) ==
    <<20 * mm, A4[2] - (1 * inch) - DrawSize(size)[2], DrawSize(size)[1], DrawSize(size)[2]>>

\* line 146: position of the company name for the stored draw size
\* variant: the company name ignores the stored logo width
NameXFixed(draw_w) == 20 * mm + (5 * mm)
NameX(draw_w) == 20 * mm + draw_w + (5 * mm)
NameY(draw_h) == A4[2] - (1 * inch) - (draw_h \div 2) + 5 * pt

footer_y == 1 * inch

\* lines 169, 179, 189: y a footer column of measured height h is drawn at
ColumnY(h) == footer_y - h - (3 * mm)

\* lines 167-169: address column
AddressColumn(n) ==
    LET wh == wrapOn(A4[1] \div 2 - (25 * mm), n)
    IN [x |-> 20 * mm, width |-> wh[1], y |-> ColumnY(wh[2]), h |-> wh[2]]

\* lines 177-179: contact column
ContactColumn(n) ==
    LET wh == wrapOn(A4[1] \div 3, n)
    IN [x |-> A4[1] \div 2, width |-> wh[1], y |-> ColumnY(wh[2]), h |-> wh[2]]

\* lines 187-189: social column
SocialColumn(n) ==
    LET wh == wrapOn(A4[1] \div 3, n)
    IN [x |-> A4[1] - (20 * mm) - wh[1], width |-> wh[1], y |-> ColumnY(wh[2]), h |-> wh[2]]

NoRect == <<0, 0, 0, 0>>

\* everything one call of HeaderFooter.draw paints, for the draw size dw, dh
\* stored on the flowable once the logo step has run
Chrome(p, rect, dw, dh, n1, n2, n3) ==
    [page |-> p,
     sidebar |-> <<0, 0, 10 * mm, A4[2]>>,
     logoRect |-> rect,
     nameFont |-> FONT_REGULAR_NAME,
     nameX |-> NameX(dw),
     nameY |-> NameY(dh),
     rule |-> <<20 * mm, footer_y, A4[1] - (20 * mm), footer_y>>,
     cols |-> <<AddressColumn(n1), ContactColumn(n2), SocialColumn(n3)>>]

\* ---------------------------------------------------------- doc.build(story)
\* padding of the single frame of SimpleDocTemplate
FramePadding == 6 * pt
FrameHeight == A4[2] - TopMargin - BottomMargin - 2 * FramePadding

WrappedLines(text) == CASE text = "" -> 0 [] text = "a" -> 1 [] OTHER -> LongLines

BlockLines(b) == IF b.kind = "Paragraph" THEN WrappedLines(b.text) ELSE 0

Leading(b) == IF b.kind = "Paragraph" THEN get_letter_styles[b.style].leading ELSE 0
SpaceBefore(b) ==
    IF b.kind = "Paragraph" /\ avail < FrameHeight
    THEN get_letter_styles[b.style].spaceBefore ELSE 0
SpaceAfter(b) == IF b.kind = "Paragraph" THEN get_letter_styles[b.style].spaceAfter ELSE 0

\* height the rest of flowable b needs in the frame
Needed(b) ==
    CASE b.kind = "Paragraph" -> SpaceBefore(b) + lines * Leading(b)
      [] b.kind = "Spacer" -> b.height
      [] OTHER -> 0

LinesAt(i) == IF i <= Len(story) THEN BlockLines(story[i]) ELSE 0

Advance ==
    /\ idx' = idx + 1
    /\ lines' = LinesAt(idx + 1)

\* lines of paragraph b that still fit the page
FitLines(b) == (avail - SpaceBefore(b)) \div Leading(b)

BuildBegin ==
    /\ pc = "build"
    /\ pc' = "flow"
    /\ page' = 1
    /\ avail' = FrameHeight
    /\ idx' = 1
    /\ lines' = LinesAt(1)
    /\ UNCHANGED <<content, story, raised, retval, log, written, painted>>
    /\ UNCHANGED fontVars
    /\ UNCHANGED flowableVars

\* the HeaderFooter flowable wraps to (0, 0) and is drawn where it stands
DrawHeaderFooter ==
    /\ pc = "flow"
    /\ idx <= Len(story)
    /\ story[idx].kind = "HeaderFooter"
    /\ \E n1 \in FooterLineCounts, n2 \in FooterLineCounts, n3 \in FooterLineCounts :
        \/ /\ logo = "ImageReader"
           /\ \E size \in LogoSizes :
                /\ _draw_w' = DrawSize(size)[1]
                /\ _draw_h' = DrawSize(size)[2]
                /\ painted' = Append(painted,
                       Chrome(page, LogoRect(size), DrawSize(size)[1], DrawSize(size)[2], n1, n2, n3))
        \/ /\ logo = "None"
           /\ UNCHANGED <<_draw_w, _draw_h>>
           /\ painted' = Append(painted, Chrome(page, NoRect, _draw_w, _draw_h, n1, n2, n3))
    /\ Advance
    /\ UNCHANGED <<pc, content, story, logo, raised, retval, log, written, page, avail>>
    /\ UNCHANGED fontVars

\* the rest of the flowable fits the page
PlaceBlock ==
    /\ pc = "flow"
    /\ idx <= Len(story)
    /\ story[idx].kind # "HeaderFooter"
    /\ Needed(story[idx]) <= avail
    /\ avail' = avail - Needed(story[idx]) - SpaceAfter(story[idx])
    /\ Advance
    /\ UNCHANGED <<pc, content, story, raised, retval, log, written, page, painted>>
    /\ UNCHANGED fontVars
    /\ UNCHANGED flowableVars

\* a paragraph that does not fit is split: the lines that fit stay on the
\* page and the rest goes to a new page
SplitParagraph ==
    /\ pc = "flow"
    /\ idx <= Len(story)
    /\ story[idx].kind = "Paragraph"
    /\ Needed(story[idx]) > avail
    /\ FitLines(story[idx]) >= 1
    /\ lines' = lines - FitLines(story[idx])
    /\ page' = page + 1
    /\ avail' = FrameHeight
    /\ UNCHANGED <<pc, content, story, raised, retval, log, written, idx, painted>>
    /\ UNCHANGED fontVars
    /\ UNCHANGED flowableVars

\* nothing of the flowable fits: it goes to a new page as a whole
PageBreak ==
    /\ pc = "flow"
    /\ idx <= Len(story)
    /\ story[idx].kind # "HeaderFooter"
    /\ Needed(story[idx]) > avail
    /\ (story[idx].kind = "Paragraph" => FitLines(story[idx]) < 1)
    /\ page' = page + 1
    /\ avail' = FrameHeight
    /\ UNCHANGED <<pc, content, story, raised, retval, log, written, idx, lines, painted>>
    /\ UNCHANGED fontVars
    /\ UNCHANGED flowableVars

\* value generate_document returns: no path has a return statement
ReturnValue(ok) == "None"

LogLine(ok) == IF ok THEN "Successfully generated" ELSE "Error generating PDF"

\* variant: the build's exception is not caught
PropagatedRaw(ok) == IF ok THEN "none" ELSE "IOError"
\* what leaves generate_document when the build raised: except Exception
Propagated(ok) == "none"

\* lines 255-259: the file is written when the story is exhausted
BuildFinish ==
    /\ pc = "flow"
    /\ idx > Len(story)
    /\ \E writable \in BOOLEAN :
        /\ written' = writable
        /\ log' = LogLine(writable)
        /\ retval' = ReturnValue(writable)
        /\ raised' = Propagated(writable)
    /\ pc' = "done"
    /\ UNCHANGED <<content, story>>
    /\ UNCHANGED fontVars
    /\ UNCHANGED flowableVars
    /\ UNCHANGED buildVars

Init ==
    /\ pc = "import"
    /\ registered = {}
    /\ FONT_REGULAR_NAME = ""
    /\ FONT_BOLD_NAME = ""
    /\ content = NoContent
    /\ story = <<>>
    /\ logo = "None"
    /\ _draw_w = 0
    /\ _draw_h = 0
    /\ raised = "none"
    /\ retval = "unset"
    /\ log = ""
    /\ written = FALSE
    /\ idx = 0
    /\ lines = 0
    /\ page = 0
    /\ avail = 0
    /\ painted = <<>>

Next ==
    \/ ImportModule
    \/ Call
    \/ NewStory
    \/ AppendDate
    \/ AppendRecipient
    \/ AppendTitle
    \/ AppendSalutation
    \/ AppendBody
    \/ AppendClosing
    \/ AppendSignature
    \/ BuildBegin
    \/ DrawHeaderFooter
    \/ PlaceBlock
    \/ SplitParagraph
    \/ PageBreak
    \/ BuildFinish

Spec == Init /\ [][Next]_vars
\* ================================================================= claims

\* C1: when the document is written, every page the pagination engine started has
\* had HeaderFooter.draw invoked for it exactly once.
C1_EveryPageDecoratedOnce ==
    (pc = "done" /\ written) =>
        \A p \in 1..page : Cardinality({i \in DOMAIN painted : painted[i].page = p}) = 1

\* C2: a list field (recipient, body, signature) that holds a number never
\* makes generate_document raise; the field just contributes no blocks.
C2_NonListFieldNeverRaises ==
    raised # "TypeError"

\* C3: on every decorated page the top margin is at least the height of the
\* header band (from the page top down to the lowest of the logo's bottom
\* edge and the company name's baseline) and the bottom margin is at least
\* the height of the footer band, whose top is the footer rule.
C3_MarginsClearChrome ==
    \A i \in DOMAIN painted :
        LET c == painted[i]
            logoBottom == IF c.logoRect = NoRect THEN A4[2] ELSE c.logoRect[2]
            bandBottom == IF logoBottom < c.nameY THEN logoBottom ELSE c.nameY
        IN /\ TopMargin >= A4[2] - bandBottom
           /\ BottomMargin >= c.rule[2]

\* C4: no failure to read the logo image aborts generate_document.
C4_LogoFailureNeverAborts ==
    raised # "ImageReaderError"

\* C5 (as claimed): a failed render/write never propagates, and the value a
\* failed call returns differs from the value a successful call returns.
C5_FailureDistinguishableByResult ==
    (pc = "done" /\ ~written) => (raised = "none" /\ retval # ReturnValue(TRUE))

\* C5 (amended): a failed render/write never propagates; the outcome shows
\* only in the printed line (success line iff the file was written) and the
\* returned value is None either way.
C5_FailureCaughtAndLogged ==
    pc = "done" =>
        /\ raised = "none"
        /\ retval = "None"
        /\ (written => log = "Successfully generated")
        /\ (~written => log = "Error generating PDF")

C5_Witness ==
    pc = "done" /\ ~written /\ log = "Error generating PDF"

\* C6: once the story is assembled, the blocks after the decorator are, in
\* order: date (Date style), gap, the recipient lines (Recipient style) in
\* input order, gap, title (Heading1 style), small gap, salutation, small
\* gap, the body paragraphs (Body style) in input order, closing, signature
\* gap, the signature lines in input order; an absent scalar field gives an
\* empty-text block and an absent list field gives no block.
C6_StoryInFixedOrder ==
    pc \in {"build", "flow", "done"} =>
        LET r == content.recipient.lines
            b == content.body.lines
            g == content.signature.lines
            txt(f) == IF f = Absent THEN "" ELSE f
            para(t, st) == [kind |-> "Paragraph", text |-> t, style |-> st, height |-> 0]
            gap(h) == [kind |-> "Spacer", text |-> "", style |-> "", height |-> h]
            flow == Tail(story)
            nr == Len(r)
            nb == Len(b)
        IN /\ content.recipient.tag \in {"list", "absent"}
           /\ content.body.tag \in {"list", "absent"}
           /\ content.signature.tag \in {"list", "absent"}
           /\ Len(flow) = 9 + nr + nb + Len(g)
           /\ flow[1] = para(txt(content.date), "Date")
           /\ flow[2] = gap(inch \div 4)
           /\ \A i \in 1..nr : flow[2 + i] = para(r[i], "Recipient")
           /\ flow[nr + 3] = gap(inch \div 4)
           /\ flow[nr + 4] = para(txt(content.title), "Heading1")
           /\ flow[nr + 5] = gap(inch \div 10)
           /\ flow[nr + 6] = para(txt(content.salutation), "Normal")
           /\ flow[nr + 7] = gap(inch \div 10)
           /\ \A i \in 1..nb : flow[nr + 7 + i] = para(b[i], "Body")
           /\ flow[nr + nb + 8] = para(txt(content.closing), "Normal")
           /\ flow[nr + nb + 9] = gap(inch \div 4)
           /\ \A i \in 1..Len(g) : flow[nr + nb + 9 + i] = para(g[i], "Normal")

C6_Witness ==
    /\ pc = "build"
    /\ content.recipient.lines = <<"a", "L">>
    /\ content.body.lines = <<"L", "a">>
    /\ content.signature.lines = <<"a", "L">>
    /\ content.title = Absent
    /\ content.signature.tag = "list"
    /\ content.date = "a"

\* C7: the three footer columns are each wrapped against a third of the
\* usable width (page width minus left and right margins), do not overlap
\* each other horizontally and lie between the left and right margins.
C7_ThreeEvenColumns ==
    \A i \in DOMAIN painted :
        LET cols == painted[i].cols
            usable == A4[1] - LeftMargin - RightMargin
        IN /\ Len(cols) = 3
           /\ \A k \in 1..3 :
                /\ cols[k].width = usable \div 3
                /\ cols[k].x >= LeftMargin
                /\ cols[k].x + cols[k].width <= A4[1] - RightMargin
           /\ \A k \in 1..3, m \in 1..3 :
                k < m => (cols[k].x + cols[k].width <= cols[m].x
                          \/ cols[m].x + cols[m].width <= cols[k].x)

\* C8: whatever height a footer column measures, it is drawn no lower than
\* the bottom edge of the page (y = 0, the least minimum distance).
C8_FooterColumnOnPage ==
    \A i \in DOMAIN painted :
        \A k \in 1..3 : painted[i].cols[k].y >= 0

\* C9 (as claimed): without a logo the company name starts at the left
\* margin itself; with a logo it starts right of the logo's drawn width.
C9_NameAtLeftMargin ==
    \A i \in DOMAIN painted :
        LET c == painted[i]
        IN IF c.logoRect = NoRect
           THEN c.nameX = LeftMargin
           ELSE c.nameX >= c.logoRect[1] + c.logoRect[3]

\* C9 (amended): the company name starts at the left margin plus the width
\* the logo occupies (zero without a logo) plus a fixed gap of 5 mm, so it
\* is right of the logo when there is one and 5 mm inside the margin when
\* there is none.
C9_NameAfterLogoAndGap ==
    \A i \in DOMAIN painted :
        LET c == painted[i]
            occupied == IF c.logoRect = NoRect THEN 0 ELSE c.logoRect[3]
        IN /\ c.nameX = LeftMargin + occupied + 5 * mm
           /\ (c.logoRect # NoRect =>
                 /\ c.logoRect[1] = LeftMargin
                 /\ occupied > 0
                 /\ c.nameX > c.logoRect[1] + c.logoRect[3])

C9_Witness ==
    /\ Len(painted) = 1
    /\ painted[1].logoRect = NoRect
    /\ logo = "None"
    /\ painted[1].nameX = 25 * mm

\* C10: font setup never raises, and once it is over the regular and bold
\* face names are each a registered Satoshi face or a built-in face.
C10_FontSetupNeverFails ==
    /\ raised # "TTFError"
    /\ pc # "import" =>
        /\ FONT_REGULAR_NAME \in registered \cup BuiltinFonts
        /\ FONT_BOLD_NAME \in registered \cup BuiltinFonts
====
